---- MODULE Spec2Model ----
(***************************************************************************)
(* Conway's Game of Life on a toroidal grid: the Universe of               *)
(* src/src/universe.rs (width, height, cells) with its operations tick,    *)
(* set_cells, set_width, set_height, render and live_neighbour_count.      *)
(*                                                                         *)
(* u32 arithmetic is kept at a word of WordBits bits: a sum, product or    *)
(* difference that leaves the word panics in a build with overflow checks  *)
(* (debug) and wraps in a build without them (release).  A panic is fatal: *)
(* status becomes "panicked" and no further operation runs.                *)
(* new() fixes a 64 x 64 universe; the constructed universes here range    *)
(* over the small widths and heights, each cell Alive or Dead.             *)
(***************************************************************************)
EXTENDS Integers, Sequences

VARIABLES
    width,            \* Universe.width
    height,           \* Universe.height
    cells,            \* Universe.cells, row-major, cells[i + 1] is Vec index i
    overflow_checks,  \* TRUE: arithmetic overflow panics, FALSE: it wraps
    status,           \* "running" | "panicked"
    last,             \* the last operation and its arguments
    prev,             \* the universe as it was before the last operation
    ret               \* what the last operation returned

vars == <<width, height, cells, overflow_checks, status, last, prev, ret>>

----------------------------------------------------------------------------
(* Bounds of the model *)

WordBits == 6       \* bits of the unsigned word standing for u32
MaxDim == 2         \* largest width and height of a constructed universe
MaxCells == 4       \* largest cell buffer explored by set_cells and resizes
MaxCoords == 2      \* longest coordinate list given to set_cells
TickMaxDim == 3     \* largest width and height of the grids ticked exhaustively
TickMaxCells == 9   \* largest cell buffer of the grids ticked exhaustively
MaxBlockDim == 5    \* largest width and height of the grids holding one block

Word == 2 ^ WordBits

----------------------------------------------------------------------------
(* Cell *)

Dead == 0
Alive == 1
Cell == {Dead, Alive}

----------------------------------------------------------------------------
(* Results of partial operations: a value, or a panic *)

Ok(v) == [ok |-> TRUE, val |-> v]
Panic == [ok |-> FALSE, val |-> 0]

CheckedAdd(a, b, oc) ==
    IF a + b < Word THEN Ok(a + b)
    ELSE IF oc THEN Panic ELSE Ok((a + b) % Word)

CheckedMul(a, b, oc) ==
    IF a * b < Word THEN Ok(a * b)
    ELSE IF oc THEN Panic ELSE Ok((a * b) % Word)

CheckedSub(a, b, oc) ==
    IF a >= b THEN Ok(a - b)
    ELSE IF oc THEN Panic ELSE Ok((a - b + Word) % Word)

\* a variant of Rem that stops at the last row or column instead of wrapping
RemClamp(a, b) == IF b = 0 THEN Panic ELSE Ok(IF a >= b THEN b - 1 ELSE a)

\* a % b: a zero divisor panics in every build
Rem(a, b) == IF b = 0 THEN Panic ELSE Ok(a % b)

\* self.cells[idx]: Vec indexing is bounds-checked
Index(cs, idx) == IF idx < Len(cs) THEN Ok(cs[idx + 1]) ELSE Panic

----------------------------------------------------------------------------
(* get_index *)

\* a variant of get_index with row and column exchanged
GetIndexTransposed(w, row, column, oc) ==
    LET m == CheckedMul(column, w, oc)
    IN  IF m.ok THEN CheckedAdd(m.val, row, oc) ELSE Panic

\* (row * self.width + column) as usize
GetIndex(w, row, column, oc) ==
    LET m == CheckedMul(row, w, oc)
    IN  IF m.ok THEN CheckedAdd(m.val, column, oc) ELSE Panic

----------------------------------------------------------------------------
(* live_neighbour_count *)

\* the cell the offset pair (x, y) reaches from (row, column)
Neighbour(w, h, cs, oc, row, column, x, y) ==
    LET xr == CheckedAdd(x, row, oc)
        r == IF xr.ok THEN Rem(xr.val, h) ELSE Panic
        yc == CheckedAdd(y, column, oc)
        c == IF yc.ok THEN Rem(yc.val, w) ELSE Panic
        idx == GetIndex(w, r.val, c.val, oc)
    IN  IF ~r.ok \/ ~c.ok \/ ~idx.ok THEN Panic ELSE Index(cs, idx.val)

RECURSIVE FoldNeighbours(_, _, _, _, _, _, _, _, _, _)
\* the k-th pair of iproduct!(xs, ys), filtered, mapped and folded into acc
FoldNeighbours(w, h, cs, oc, row, column, xs, ys, k, acc) ==
    IF k > 9 THEN Ok(acc)
    ELSE LET x == xs[((k - 1) \div 3) + 1]
             y == ys[((k - 1) % 3) + 1]
         IN  IF x = 0 /\ y = 0
             THEN FoldNeighbours(w, h, cs, oc, row, column, xs, ys, k + 1, acc)
             ELSE LET n == Neighbour(w, h, cs, oc, row, column, x, y)
                  IN  IF ~n.ok THEN Panic
                      ELSE FoldNeighbours(w, h, cs, oc, row, column, xs, ys,
                                          k + 1, acc + n.val)

LiveNeighbourCount(w, h, cs, oc, row, column) ==
    LET hm == CheckedSub(h, 1, oc)
        wm == CheckedSub(w, 1, oc)
    IN  IF ~hm.ok \/ ~wm.ok THEN Panic
        ELSE FoldNeighbours(w, h, cs, oc, row, column,
                            <<hm.val, 0, 1>>, <<wm.val, 0, 1>>, 1, 0)

----------------------------------------------------------------------------
(* tick *)

\* a variant of the match in which a live cell survives on 2 neighbours only
NewStateNoSurvivalOnThree(cell, nbr_cnt) ==
    IF cell = Alive /\ nbr_cnt = 2 THEN Alive
    ELSE IF cell = Dead /\ nbr_cnt = 3 THEN Alive
    ELSE Dead

\* the match of tick, arm by arm
NewState(cell, nbr_cnt) ==
    IF cell = Alive /\ nbr_cnt < 2 THEN Dead
    ELSE IF cell = Alive /\ (nbr_cnt = 2 \/ nbr_cnt = 3) THEN Alive
    ELSE IF cell = Alive /\ nbr_cnt > 3 THEN Dead
    ELSE IF cell = Dead /\ nbr_cnt = 3 THEN Alive
    ELSE cell

\* the closure of tick for the k-th pair (row, col) of iproduct!(0..h, 0..w)
TickCell(w, h, cs, oc, k) ==
    LET row == (k - 1) \div w
        col == (k - 1) % w
        idx == GetIndex(w, row, col, oc)
        cell == IF idx.ok THEN Index(cs, idx.val) ELSE Panic
        nbr_cnt == LiveNeighbourCount(w, h, cs, oc, row, col)
    IN  IF ~cell.ok \/ ~nbr_cnt.ok THEN Panic
        ELSE Ok(NewState(cell.val, nbr_cnt.val))

RECURSIVE TickInPlaceFrom(_, _, _, _, _)
\* a variant of tick that writes each new state into the cells it goes on reading
TickInPlaceFrom(w, h, cs, oc, k) ==
    IF k > w * h THEN Ok(cs)
    ELSE LET c == TickCell(w, h, cs, oc, k)
         IN  IF ~c.ok THEN Panic
             ELSE TickInPlaceFrom(w, h, [cs EXCEPT ![k] = c.val], oc, k + 1)

TickCellsInPlace(w, h, cs, oc) == TickInPlaceFrom(w, h, cs, oc, 1)

\* collect(): the new cells, unless a closure call panicked
Collect(results) ==
    IF \E k \in 1..Len(results) : ~results[k].ok THEN Panic
    ELSE Ok([k \in 1..Len(results) |-> results[k].val])

\* next: every cell's new state read from the current cells, then collected
TickCells(w, h, cs, oc) ==
    Collect([k \in 1..(w * h) |-> TickCell(w, h, cs, oc, k)])

----------------------------------------------------------------------------
(* set_cells *)

RECURSIVE SetCellsFrom(_, _, _, _)
\* the loop of set_cells; a panic keeps the cells already set
SetCellsFrom(w, cs, oc, coords) ==
    IF coords = <<>> THEN [ok |-> TRUE, cells |-> cs]
    ELSE LET idx == GetIndex(w, coords[1][1], coords[1][2], oc)
         IN  IF ~idx.ok \/ ~Index(cs, idx.val).ok
             THEN [ok |-> FALSE, cells |-> cs]
             ELSE SetCellsFrom(w, [cs EXCEPT ![idx.val + 1] = Alive], oc,
                               Tail(coords))

----------------------------------------------------------------------------
(* set_width, set_height *)

\* a variant of the reallocation that never leaves the buffer empty
DeadCellsAtLeastOne(n) == [k \in 1..(IF n = 0 THEN 1 ELSE n) |-> Dead]

\* (0..n).map(|_x| Cell::Dead).collect()
DeadCells(n) == [k \in 1..n |-> Dead]

----------------------------------------------------------------------------
(* Display::fmt, render *)

HollowSquare == "U+25FB"
FilledSquare == "U+25FC"
LineBreak == "\n"

Symbol(cell) == IF cell = Dead THEN HollowSquare ELSE FilledSquare

RECURSIVE FmtChunks(_, _)
\* one line per chunk of w cells, each line ended by a line break
FmtChunks(cs, w) ==
    IF cs = <<>> THEN <<>>
    ELSE LET k == IF Len(cs) < w THEN Len(cs) ELSE w
         IN  [i \in 1..k |-> Symbol(cs[i])] \o <<LineBreak>>
                 \o FmtChunks(SubSeq(cs, k + 1, Len(cs)), w)

\* chunks(0) panics
Fmt(w, cs) == IF w = 0 THEN Panic ELSE Ok(FmtChunks(cs, w))

----------------------------------------------------------------------------
(* The universes *)

Snapshot == [width |-> width, height |-> height, cells |-> cells]

Grids(maxDim, maxCells) ==
    UNION {[width : {w}, height : {h}, cells : [1..(w * h) -> Cell]] :
           <<w, h>> \in {d \in (1..maxDim) \X (1..maxDim) :
                            d[1] * d[2] <= maxCells /\ d[1] * d[2] < Word}}

\* tests::get_universe
TestUniverse ==
    [width |-> 5, height |-> 5,
     cells |-> <<Dead,  Dead, Dead,  Dead, Dead,
                 Alive, Dead, Alive, Dead, Dead,
                 Dead,  Dead, Alive, Dead, Dead,
                 Dead,  Dead, Alive, Dead, Dead,
                 Dead,  Dead, Dead,  Dead, Alive>>]

\* the four cells of the 2 x 2 block whose top-left cell is (r, c), wrapped
BlockAt(w, h, r, c) ==
    {<<r, c>>, <<r, (c + 1) % w>>, <<(r + 1) % h, c>>, <<(r + 1) % h, (c + 1) % w>>}

BlockUniverses ==
    {[width |-> w, height |-> h,
      cells |-> [k \in 1..(w * h) |->
                    IF <<(k - 1) \div w, (k - 1) % w>> \in BlockAt(w, h, r, c)
                    THEN Alive ELSE Dead]] :
     <<w, h, r, c>> \in {q \in (4..MaxBlockDim) \X (4..MaxBlockDim)
                                 \X (0..(MaxBlockDim - 1)) \X (0..(MaxBlockDim - 1)) :
                            q[3] < q[2] /\ q[4] < q[1] /\ q[1] * q[2] < Word}}

InitFrom(universes) ==
    /\ \E u \in universes :
          /\ width = u.width
          /\ height = u.height
          /\ cells = u.cells
          /\ prev = u
    /\ overflow_checks \in BOOLEAN
    /\ status = "running"
    /\ last = [op |-> "new", arg |-> <<>>]
    /\ ret = <<>>

\* a constructed universe: positive dimensions, every cell Alive or Dead at random
Init == InitFrom(Grids(MaxDim, MaxCells))

\* the universes that are ticked exhaustively: every small grid and the test module's universe
InitTick == InitFrom(Grids(TickMaxDim, TickMaxCells) \cup {TestUniverse})

\* the universes whose only live cells are one 2 x 2 block
InitBlock == InitFrom(BlockUniverses)

----------------------------------------------------------------------------
(* Operations *)

Tick ==
    /\ status = "running"
    /\ LET next == TickCells(width, height, cells, overflow_checks)
       IN  IF next.ok
           THEN cells' = next.val /\ status' = "running"
           ELSE cells' = cells /\ status' = "panicked"
    /\ prev' = Snapshot
    /\ last' = [op |-> "tick", arg |-> <<>>]
    /\ ret' = <<>>
    /\ UNCHANGED <<width, height, overflow_checks>>

\* coordinate arguments: the four cells nearest the origin, and one column and
\* one row past every grid
CoordArgs == {<<0, 0>>, <<0, 1>>, <<1, 0>>, <<1, 1>>, <<0, MaxDim>>, <<MaxDim, 0>>}

CoordLists == UNION {[1..n -> CoordArgs] : n \in 0..MaxCoords}

SetCells(coords) ==
    /\ status = "running"
    /\ LET r == SetCellsFrom(width, cells, overflow_checks, coords)
       IN  /\ cells' = r.cells
           /\ status' = IF r.ok THEN "running" ELSE "panicked"
    /\ prev' = Snapshot
    /\ last' = [op |-> "set_cells", arg |-> coords]
    /\ ret' = <<>>
    /\ UNCHANGED <<width, height, overflow_checks>>

\* dimension arguments: the small ones, and two whose products leave the word
DimArgs == (0..MaxDim) \cup {Word \div 2, (Word \div 2) + 1}

SetWidth(n) ==
    /\ status = "running"
    /\ LET size == CheckedMul(n, height, overflow_checks)
       IN  /\ size.ok => size.val <= MaxCells
           /\ width' = n
           /\ IF size.ok
              THEN cells' = DeadCells(size.val) /\ status' = "running"
              ELSE cells' = cells /\ status' = "panicked"
    /\ prev' = Snapshot
    /\ last' = [op |-> "set_width", arg |-> <<n>>]
    /\ ret' = <<>>
    /\ UNCHANGED <<height, overflow_checks>>

SetHeight(n) ==
    /\ status = "running"
    /\ LET size == CheckedMul(width, n, overflow_checks)
       IN  /\ size.ok => size.val <= MaxCells
           /\ height' = n
           /\ IF size.ok
              THEN cells' = DeadCells(size.val) /\ status' = "running"
              ELSE cells' = cells /\ status' = "panicked"
    /\ prev' = Snapshot
    /\ last' = [op |-> "set_height", arg |-> <<n>>]
    /\ ret' = <<>>
    /\ UNCHANGED <<width, overflow_checks>>

Render ==
    /\ status = "running"
    /\ LET s == Fmt(width, cells)
       IN  IF s.ok
           THEN ret' = s.val /\ status' = "running"
           ELSE ret' = <<>> /\ status' = "panicked"
    /\ prev' = Snapshot
    /\ last' = [op |-> "render", arg |-> <<>>]
    /\ UNCHANGED <<width, height, cells, overflow_checks>>

\* live_neighbour_count called on a cell of the grid, as the test module does
CountNeighbours(row, column) ==
    /\ status = "running"
    /\ row < height
    /\ column < width
    /\ LET n == LiveNeighbourCount(width, height, cells, overflow_checks, row, column)
       IN  IF n.ok
           THEN ret' = <<n.val>> /\ status' = "running"
           ELSE ret' = <<>> /\ status' = "panicked"
    /\ prev' = Snapshot
    /\ last' = [op |-> "live_neighbour_count", arg |-> <<row, column>>]
    /\ UNCHANGED <<width, height, cells, overflow_checks>>

----------------------------------------------------------------------------
(* Specifications *)

Next ==
    \/ Tick
    \/ \E coords \in CoordLists : SetCells(coords)
    \/ \E n \in DimArgs : SetWidth(n)
    \/ \E n \in DimArgs : SetHeight(n)
    \/ Render
    \/ \E row \in 0..MaxDim, column \in 0..MaxDim : CountNeighbours(row, column)

\* the whole universe: construction, then any operations
Spec == Init /\ [][Next]_vars

NextSeed ==
    \/ Tick
    \/ \E coords \in CoordLists : SetCells(coords)
    \/ Render
    \/ \E row \in 0..MaxDim, column \in 0..MaxDim : CountNeighbours(row, column)

\* a constructed universe that is ticked, seeded and read, never resized
SpecSeed == Init /\ [][NextSeed]_vars

\* the grids of InitTick, ticked again and again
SpecTick == InitTick /\ [][Tick]_vars

\* the grids holding one block, ticked again and again
SpecBlock == InitBlock /\ [][Tick]_vars

----------------------------------------------------------------------------
(* Vocabulary of the properties *)

\* the cell at (r, c) of universe g
CellAt(g, r, c) == g.cells[r * g.width + c + 1]

Rows(g) == 0..(g.height - 1)
Columns(g) == 0..(g.width - 1)

\* the B3/S23 table
Successor(cell, n) ==
    IF cell = Alive
    THEN (IF n \in {2, 3} THEN Alive ELSE Dead)
    ELSE (IF n = 3 THEN Alive ELSE Dead)

\* tests::should_get_correct_next_tick
TestExpected ==
    <<Dead, Dead,  Dead,  Dead,  Dead,
      Dead, Alive, Dead,  Dead,  Dead,
      Dead, Dead,  Alive, Alive, Dead,
      Dead, Dead,  Dead,  Alive, Dead,
      Dead, Dead,  Dead,  Dead,  Dead>>

MooreOffsets ==
    <<<<-1, -1>>, <<-1, 0>>, <<-1, 1>>, <<0, -1>>, <<0, 1>>, <<1, -1>>, <<1, 0>>, <<1, 1>>>>

RECURSIVE MooreSumFrom(_, _, _, _)
MooreSumFrom(g, row, column, k) ==
    IF k > Len(MooreOffsets) THEN 0
    ELSE CellAt(g, (row + MooreOffsets[k][1] + g.height) % g.height,
                   (column + MooreOffsets[k][2] + g.width) % g.width)
         + MooreSumFrom(g, row, column, k + 1)

\* the live cells over the 8 offsets around (row, column), wrapped, one per offset
MooreSum(g, row, column) == MooreSumFrom(g, row, column, 1)

InRange(coords, g) ==
    \A i \in 1..Len(coords) : coords[i][1] < g.height /\ coords[i][2] < g.width

\* the only live cells of g are one 2 x 2 block
IsBlock(g) ==
    \E r \in Rows(g), c \in Columns(g) :
        \A r2 \in Rows(g), c2 \in Columns(g) :
            CellAt(g, r2, c2) = Alive <=> <<r2, c2>> \in BlockAt(g.width, g.height, r, c)

\* the cells of g translated: cell (r, c) holds g's ((r + a) mod height, (c + b) mod width)
Shift(g, a, b) ==
    [k \in 1..(g.width * g.height) |->
        CellAt(g, (((k - 1) \div g.width) + a) % g.height,
                  (((k - 1) % g.width) + b) % g.width)]

----------------------------------------------------------------------------
(* Properties *)

\* C1: on a grid with width >= 1 and height >= 1, one tick completes and sets every
\* cell (row, column) to the B3/S23 successor of its pre-tick state and of the
\* live_neighbour_count it has on the pre-tick grid, width and height kept; the
\* test module's 5 x 5 universe becomes exactly the expected 5 x 5 grid.
C1_TickAppliesRuleToSnapshot ==
    (last.op = "tick" /\ prev.width >= 1 /\ prev.height >= 1) =>
        /\ status = "running"
        /\ width = prev.width
        /\ height = prev.height
        /\ Len(cells) = prev.width * prev.height
        /\ \A r \in Rows(prev), c \in Columns(prev) :
              LET n == LiveNeighbourCount(prev.width, prev.height, prev.cells,
                                          overflow_checks, r, c)
              IN  n.ok /\ CellAt(Snapshot, r, c) = Successor(CellAt(prev, r, c), n.val)
        /\ (prev = TestUniverse => cells = TestExpected)

C1_Witness ==
    /\ last.op = "tick"
    /\ status = "running"
    /\ prev = TestUniverse
    /\ cells = TestExpected

\* C2: live_neighbour_count(row, column), row < height and column < width, returns
\* the sum over the 8 offsets other than (0, 0) of the cell at the wrapped
\* position, once per offset, a value in 0..8, for every width and height >= 1.
C2_CountIsMooreSum ==
    (last.op = "live_neighbour_count" /\ prev.width >= 1 /\ prev.height >= 1) =>
        /\ status = "running"
        /\ ret = <<MooreSum(prev, last.arg[1], last.arg[2])>>
        /\ ret[1] \in 0..8

\* C3: the length of cells is width * height in every reachable state, and tick
\* changes neither width nor height nor the length of cells.
C3_LengthIsWidthTimesHeight ==
    /\ Len(cells) = width * height
    /\ last.op = "tick" =>
          width = prev.width /\ height = prev.height /\ Len(cells) = Len(prev.cells)

\* C4: set_width(n) leaves width = n, height as it was, n * height cells, all
\* Dead; set_height(n) leaves height = n, width as it was, width * n cells, all
\* Dead.
C4_ResizeResets ==
    /\ last.op = "set_width" =>
          /\ status = "running"
          /\ width = last.arg[1]
          /\ height = prev.height
          /\ Len(cells) = last.arg[1] * prev.height
          /\ \A i \in 1..Len(cells) : cells[i] = Dead
    /\ last.op = "set_height" =>
          /\ status = "running"
          /\ height = last.arg[1]
          /\ width = prev.width
          /\ Len(cells) = prev.width * last.arg[1]
          /\ \A i \in 1..Len(cells) : cells[i] = Dead

\* C5: after set_cells(coords) with every coordinate in range, a cell is Alive
\* exactly when it was Alive before or is named in coords; width, height and the
\* length of cells are unchanged.
C5_SetCellsSetsExactlyNamed ==
    (last.op = "set_cells" /\ InRange(last.arg, prev)) =>
        /\ status = "running"
        /\ width = prev.width
        /\ height = prev.height
        /\ Len(cells) = Len(prev.cells)
        /\ \A r \in Rows(prev), c \in Columns(prev) :
              CellAt(Snapshot, r, c) = Alive <=>
                  \/ CellAt(prev, r, c) = Alive
                  \/ \E i \in 1..Len(last.arg) : last.arg[i] = <<r, c>>

C5_Witness ==
    /\ last.op = "set_cells"
    /\ InRange(last.arg, prev)
    /\ Len(last.arg) = 2
    /\ status = "running"
    /\ CellAt(prev, last.arg[1][1], last.arg[1][2]) = Alive
    /\ CellAt(prev, last.arg[2][1], last.arg[2][2]) = Dead
    /\ \E r \in Rows(prev), c \in Columns(prev) : CellAt(Snapshot, r, c) = Dead

\* C6: set_cells given a coordinate with row >= height or column >= width ends in
\* a fatal index-out-of-bounds error.
C6_OutOfRangeIsFatal ==
    (last.op = "set_cells" /\ ~InRange(last.arg, prev)) => status = "panicked"

\* C7: on a grid with width >= 4 and height >= 4 whose only Alive cells form a
\* 2 x 2 block, at any position, tick leaves cells unchanged (and so the block is
\* there for the next tick too).
C7_BlockIsStillLife ==
    (last.op = "tick" /\ prev.width >= 4 /\ prev.height >= 4 /\ IsBlock(prev)) =>
        /\ status = "running"
        /\ cells = prev.cells
        /\ width = prev.width
        /\ height = prev.height

\* a block straddling both wrap-around edges, ticked
C7_Witness ==
    /\ last.op = "tick"
    /\ status = "running"
    /\ prev.width >= 4
    /\ prev.height >= 4
    /\ IsBlock(prev)
    /\ CellAt(prev, 0, 0) = Alive
    /\ CellAt(prev, prev.height - 1, prev.width - 1) = Alive
    /\ IsBlock(Snapshot)

\* C8: in every reachable state render() returns height lines of width glyphs,
\* line r holding row r in column order, Dead hollow and Alive filled, each line
\* ended by a line break, and changes neither width, height nor cells.
C8_RenderLines ==
    last.op = "render" =>
        /\ status = "running"
        /\ Len(cells) = width * height
        /\ Len(ret) = height * (width + 1)
        /\ \A r \in Rows(Snapshot) :
              /\ ret[r * (width + 1) + width + 1] = LineBreak
              /\ \A c \in Columns(Snapshot) :
                    ret[r * (width + 1) + c + 1] = Symbol(CellAt(Snapshot, r, c))
        /\ Snapshot = prev

\* C9 as stated: a tick on a grid with width 0 or height 0 fails fatally.
C9_TickOnZeroDimensionPanics ==
    (last.op = "tick" /\ (prev.width = 0 \/ prev.height = 0)) => status = "panicked"

\* C9 amended: set_width(0) and set_height(0) are accepted and leave an empty
\* cells buffer; a tick on a grid with width 0 or height 0 visits no cell and
\* completes normally, cells staying empty and the dimensions as they were.
C9_ZeroDimensionAccepted ==
    /\ (last.op \in {"set_width", "set_height"} /\ last.arg = <<0>>) =>
          /\ status = "running"
          /\ cells = <<>>
          /\ (last.op = "set_width" => width = 0 /\ height = prev.height)
          /\ (last.op = "set_height" => height = 0 /\ width = prev.width)
    /\ (last.op = "tick" /\ (prev.width = 0 \/ prev.height = 0)) =>
          /\ status = "running"
          /\ prev.cells = <<>>
          /\ cells = <<>>
          /\ width = prev.width
          /\ height = prev.height

C9_Witness ==
    /\ last.op = "tick"
    /\ prev.width = 0
    /\ prev.height >= 1
    /\ status = "running"
    /\ cells = <<>>

\* C10: tick commutes with every toroidal translation: ticking the grid shifted
\* by (a, b) gives the ticked grid shifted by (a, b), on every grid with
\* width >= 1 and height >= 1 and after any number of ticks.
C10_TickCommutesWithShift ==
    (last.op = "tick" /\ prev.width >= 1 /\ prev.height >= 1) =>
        /\ status = "running"
        /\ \A a \in Rows(prev), b \in Columns(prev) :
              TickCells(prev.width, prev.height, Shift(prev, a, b), overflow_checks)
                  = Ok(Shift(Snapshot, a, b))

\* a tick that changed a grid which some translation moves
C10_Witness ==
    /\ last.op = "tick"
    /\ status = "running"
    /\ cells # prev.cells
    /\ \E i \in 1..Len(cells) : cells[i] = Alive
    /\ \E a \in Rows(prev), b \in Columns(prev) :
          Shift(prev, a, b) # prev.cells /\ Shift(Snapshot, a, b) # cells

====
